---------------------------- MODULE Spec2Model ----------------------------
(***************************************************************************)
(* A model of ab_test_calculator.py: the ABTestCalculator class (its       *)
(* constructor, _validate_inputs and calculate_sample_size), the helper    *)
(* calculate_baseline_rate and the driver sensitivity_analysis.            *)
(*                                                                         *)
(* Python floats are modelled as exact rationals (a sign, a numerator and  *)
(* a positive denominator, both naturals of arbitrary size kept as         *)
(* sequences of decimal limbs), so every arithmetic step of the source is  *)
(* carried out as written and math.ceil is an exact ceiling.               *)
(***************************************************************************)
EXTENDS Integers, Sequences, FiniteSets, TLC

(***************************************************************************)
(* Naturals of arbitrary size: little-endian sequences of limbs, no        *)
(* leading zero limb, zero is the empty sequence.                          *)
(***************************************************************************)
Base == 100 * 100

Abs(n) == IF n < 0 THEN -n ELSE n

RECURSIVE BigOf(_)
BigOf(n) == IF n = 0 THEN <<>> ELSE <<n % Base>> \o BigOf(n \div Base)

RECURSIVE BigTrim(_)
BigTrim(a) ==
    IF a = <<>> THEN a
    ELSE IF a[Len(a)] = 0 THEN BigTrim(SubSeq(a, 1, Len(a) - 1)) ELSE a

RECURSIVE BigAddC(_, _, _)
BigAddC(a, b, c) ==
    IF a = <<>> /\ b = <<>> THEN (IF c = 0 THEN <<>> ELSE <<c>>)
    ELSE LET x == IF a = <<>> THEN 0 ELSE Head(a)
             y == IF b = <<>> THEN 0 ELSE Head(b)
             t == x + y + c
         IN  <<t % Base>> \o BigAddC(IF a = <<>> THEN a ELSE Tail(a),
                                     IF b = <<>> THEN b ELSE Tail(b),
                                     t \div Base)

BigAdd(a, b) == BigAddC(a, b, 0)

\* a - b for a >= b
RECURSIVE BigSubB(_, _, _)
BigSubB(a, b, c) ==
    IF a = <<>> THEN <<>>
    ELSE LET y == IF b = <<>> THEN 0 ELSE Head(b)
             t == Head(a) - y - c
         IN  <<IF t < 0 THEN t + Base ELSE t>>
                 \o BigSubB(Tail(a), IF b = <<>> THEN b ELSE Tail(b),
                            IF t < 0 THEN 1 ELSE 0)

BigSub(a, b) == BigTrim(BigSubB(a, b, 0))

RECURSIVE BigMulLimb(_, _, _)
BigMulLimb(a, m, c) ==
    IF m = 0 THEN <<>>
    ELSE IF a = <<>> THEN BigOf(c)
    ELSE LET t == Head(a) * m + c
         IN  <<t % Base>> \o BigMulLimb(Tail(a), m, t \div Base)

BigShift(a) == IF a = <<>> THEN a ELSE <<0>> \o a

\* a * b, one pass over a for each limb of b
RECURSIVE BigMulBy(_, _)
BigMulBy(a, b) ==
    IF b = <<>> THEN <<>>
    ELSE BigAdd(BigMulLimb(a, Head(b), 0), BigShift(BigMulBy(a, Tail(b))))

BigMul(a, b) ==
    IF a = <<>> \/ b = <<>> THEN <<>>
    ELSE IF a = <<1>> THEN b
    ELSE IF b = <<1>> THEN a
    ELSE IF Len(a) < Len(b) THEN BigMulBy(b, a) ELSE BigMulBy(a, b)

\* k * a for a natural k of the machine's size
BigTimes(k, a) ==
    IF k < Base * 10 THEN BigMulLimb(a, k, 0) ELSE BigMul(a, BigOf(k))

RECURSIVE BigCmpAt(_, _, _)
BigCmpAt(a, b, i) ==
    IF i = 0 THEN 0
    ELSE IF a[i] < b[i] THEN -1
    ELSE IF a[i] > b[i] THEN 1
    ELSE BigCmpAt(a, b, i - 1)

\* -1, 0 or 1 as a < b, a = b or a > b
BigCmp(a, b) ==
    IF Len(a) < Len(b) THEN -1
    ELSE IF Len(a) > Len(b) THEN 1
    ELSE BigCmpAt(a, b, Len(a))

(***************************************************************************)
(* Exact rationals, the model of a Python float.                           *)
(***************************************************************************)
\* common factors of Base are cancelled; zero is 0/1
RECURSIVE Cancel(_, _)
Cancel(num, den) ==
    IF num = <<>> THEN <<num, <<1>>>>
    ELSE IF Head(num) = 0 /\ Head(den) = 0 THEN Cancel(Tail(num), Tail(den))
    ELSE <<num, den>>

MkPair(neg, c) == [neg |-> neg /\ c[1] # <<>>, num |-> c[1], den |-> c[2]]

Mk(neg, num, den) == MkPair(neg, Cancel(num, den))

\* the decimal literal n/d, d > 0
Frac(n, d) == Mk(n < 0, BigOf(Abs(n)), BigOf(d))

RatOfInt(n) == Frac(n, 1)

RatNeg(a) == Mk(~a.neg, a.num, a.den)

\* the sum of the signed naturals an and bn over the denominator d
SignedSum(aneg, an, bneg, bn, d) ==
    IF aneg = bneg THEN Mk(aneg, BigAdd(an, bn), d)
    ELSE IF BigCmp(an, bn) >= 0 THEN Mk(aneg, BigSub(an, bn), d)
    ELSE Mk(bneg, BigSub(bn, an), d)

RatAdd(a, b) ==
    IF a.den = b.den THEN SignedSum(a.neg, a.num, b.neg, b.num, a.den)
    ELSE SignedSum(a.neg, BigMul(a.num, b.den), b.neg, BigMul(b.num, a.den),
                   BigMul(a.den, b.den))

RatSub(a, b) == RatAdd(a, RatNeg(b))

RatMul(a, b) == Mk(a.neg # b.neg, BigMul(a.num, b.num), BigMul(a.den, b.den))

RatIsZero(a) == a.num = <<>>

\* a / b for b # 0
RatDiv(a, b) == Mk(a.neg # b.neg, BigMul(a.num, b.den), BigMul(a.den, b.num))

\* -1, 0 or 1 as a < b, a = b or a > b
RatCmp(a, b) ==
    IF a.neg # b.neg THEN (IF a.neg THEN -1 ELSE 1)
    ELSE IF a.den = b.den
    THEN (IF a.neg THEN BigCmp(b.num, a.num) ELSE BigCmp(a.num, b.num))
    ELSE IF a.neg THEN BigCmp(BigMul(b.num, a.den), BigMul(a.num, b.den))
    ELSE BigCmp(BigMul(a.num, b.den), BigMul(b.num, a.den))

RatLess(a, b) == RatCmp(a, b) < 0

RatLeq(a, b) == RatCmp(a, b) <= 0

RatEq(a, b) == RatCmp(a, b) = 0

\* Python's max(a, b): the first argument unless the second is greater
RatMax(a, b) == IF RatLess(a, b) THEN b ELSE a

RECURSIVE FloorUpper(_, _, _)
FloorUpper(num, den, k) ==
    IF BigCmp(BigTimes(k, den), num) > 0 THEN k
    ELSE FloorUpper(num, den, 2 * k)

RECURSIVE FloorBisect(_, _, _, _)
FloorBisect(num, den, lo, hi) ==
    IF hi - lo <= 1 THEN lo
    ELSE LET mid == (lo + hi) \div 2
         IN  IF BigCmp(BigTimes(mid, den), num) <= 0
             THEN FloorBisect(num, den, mid, hi)
             ELSE FloorBisect(num, den, lo, mid)

FloorFrom(num, den, hi) == FloorBisect(num, den, hi \div 2, hi)

\* the greatest k with k * den <= num
FloorNat(num, den) == FloorFrom(num, den, FloorUpper(num, den, 1))

CeilFrom(a, q) ==
    IF a.neg THEN -q ELSE IF BigTimes(q, a.den) = a.num THEN q ELSE q + 1

\* math.ceil
Ceil(a) == CeilFrom(a, FloorNat(a.num, a.den))

(***************************************************************************)
(* Constants of the arithmetic and the inputs.                             *)
(***************************************************************************)
Zero == RatOfInt(0)

One == RatOfInt(1)

Two == RatOfInt(2)

Hundred == RatOfInt(100)

\* the decimal literal with three places, 0.20 = Permille(200)
Permille(x) == Frac(10 * x, 10000)

None == [none |-> TRUE]

NoError == "none"

\* scipy.stats.norm.ppf on the probabilities the inputs below lead to: pairs
\* <<2000 * q, 100000 * ppf(q)>>, the quantile to five places
PpfTable ==
    { <<50, -195996>>, <<200, -128155>>, <<400, -84162>>, <<500, -67449>>,
      <<1000, 0>>, <<1400, 52440>>, <<1500, 67449>>, <<1600, 84162>>,
      <<1620, 87790>>, <<1800, 128155>>, <<1900, 164485>>, <<1950, 195996>>,
      <<1990, 257583>> }

NormPpf(q) ==
    LET e == CHOOSE t \in PpfTable : RatEq(q, Frac(t[1], 2000))
    IN  Frac(e[2], 100000)

(***************************************************************************)
(* class ABTestCalculator                                                  *)
(***************************************************************************)
ABTestCalculator_init(baseline_rate, minimum_detectable_effect, alpha, power, daily_volume, treatment_split) ==
    [p1 |-> baseline_rate,
     mde |-> minimum_detectable_effect,
     p2 |-> RatAdd(baseline_rate, minimum_detectable_effect),
     alpha |-> alpha,
     power |-> power,
     daily_volume |-> daily_volume,
     treatment_split |-> treatment_split]

\* a faulty variant: the target rate's upper bound made exclusive
validate_inputs_exclusive(self) ==
    IF ~(RatLess(Zero, self.p1) /\ RatLess(self.p1, One))
    THEN "baseline_rate must be between 0 and 1"
    ELSE IF ~(RatLess(Zero, self.p2) /\ RatLess(self.p2, One))
    THEN "baseline_rate + MDE must be between 0 and 1"
    ELSE IF ~(RatLess(Zero, self.alpha) /\ RatLess(self.alpha, One))
    THEN "alpha must be between 0 and 1"
    ELSE IF ~(RatLess(Zero, self.power) /\ RatLess(self.power, One))
    THEN "power must be between 0 and 1"
    ELSE IF RatLeq(self.daily_volume, Zero)
    THEN "daily_volume must be positive"
    ELSE IF ~(RatLess(Zero, self.treatment_split)
              /\ RatLess(self.treatment_split, One))
    THEN "treatment_split must be between 0 and 1"
    ELSE NoError

\* the message of the ValueError raised, or NoError
validate_inputs(self) ==
    IF ~(RatLess(Zero, self.p1) /\ RatLess(self.p1, One))
    THEN "baseline_rate must be between 0 and 1"
    ELSE IF ~(RatLess(Zero, self.p2) /\ RatLeq(self.p2, One))
    THEN "baseline_rate + MDE must be between 0 and 1"
    ELSE IF ~(RatLess(Zero, self.alpha) /\ RatLess(self.alpha, One))
    THEN "alpha must be between 0 and 1"
    ELSE IF ~(RatLess(Zero, self.power) /\ RatLess(self.power, One))
    THEN "power must be between 0 and 1"
    ELSE IF RatLeq(self.daily_volume, Zero)
    THEN "daily_volume must be positive"
    ELSE IF ~(RatLess(Zero, self.treatment_split)
              /\ RatLess(self.treatment_split, One))
    THEN "treatment_split must be between 0 and 1"
    ELSE NoError

ValidationErrors ==
    { "baseline_rate must be between 0 and 1",
      "baseline_rate + MDE must be between 0 and 1",
      "alpha must be between 0 and 1",
      "power must be between 0 and 1",
      "daily_volume must be positive",
      "treatment_split must be between 0 and 1" }

\* What the division by a zero denominator on line 89 ends in.  With Python
\* floats it raises ZeroDivisionError there; with the numpy scalars that
\* norm.ppf returns it yields inf, or nan for a zero numerator, and math.ceil
\* on line 115 raises OverflowError or ValueError.
DivisionByZero(numerator) ==
    IF RatIsZero(numerator)
    THEN {"ZeroDivisionError", "ValueError: cannot convert float NaN to integer"}
    ELSE {"ZeroDivisionError",
          "OverflowError: cannot convert float infinity to integer"}

ComputeErrors == DivisionByZero(Zero) \cup DivisionByZero(One)

RatSquare(a) == RatMul(a, a)

\* line 80
pooled_proportion(p1, p2) == RatDiv(RatAdd(p1, p2), Two)

\* line 83
variance(p_bar) == RatMul(p_bar, RatSub(One, p_bar))

\* line 86, a faulty variant: the factor 2 left out
numerator_halved(p1, p2, z_alpha, z_beta) ==
    RatMul(variance(pooled_proportion(p1, p2)),
           RatSquare(RatAdd(z_alpha, z_beta)))

\* line 86, a faulty variant: the power quantile subtracted
numerator_minus(p1, p2, z_alpha, z_beta) ==
    RatMul(RatMul(Two, variance(pooled_proportion(p1, p2))),
           RatSquare(RatSub(z_alpha, z_beta)))

\* lines 80-86
numerator(p1, p2, z_alpha, z_beta) ==
    RatMul(RatMul(Two, variance(pooled_proportion(p1, p2))),
           RatSquare(RatAdd(z_alpha, z_beta)))

\* line 87, a faulty variant: the baseline rate squared
denominator_baseline(p1, p2) == RatSquare(p1)

\* line 87
denominator(p1, p2) == RatSquare(RatSub(p2, p1))

\* line 89: the unrounded n_per_group, for p2 # p1
raw_n_per_group(p1, p2, z_alpha, z_beta) ==
    RatDiv(numerator(p1, p2, z_alpha, z_beta), denominator(p1, p2))

\* line 92, a faulty variant: twice the rounded per-group size
raw_total_n_of_rounded(n_per_group) ==
    RatMul(Two, RatOfInt(Ceil(n_per_group)))

\* line 92: the unrounded total_n
raw_total_n(n_per_group) == RatMul(Two, n_per_group)

\* line 95
control_per_day(daily_volume, treatment_split) ==
    RatMul(daily_volume, RatSub(One, treatment_split))

\* line 96
treatment_per_day(daily_volume, treatment_split) ==
    RatMul(daily_volume, treatment_split)

\* Python's min(a, b)
RatMin(a, b) == IF RatLess(b, a) THEN b ELSE a

\* lines 98-100, a faulty variant: the arm that fills first decides
raw_days_needed_first_arm(n_per_group, daily_volume, treatment_split) ==
    RatMin(RatDiv(n_per_group,
                  treatment_per_day(daily_volume, treatment_split)),
           RatDiv(n_per_group,
                  control_per_day(daily_volume, treatment_split)))

\* lines 98-100: the unrounded days_needed
raw_days_needed(n_per_group, daily_volume, treatment_split) ==
    RatMax(RatDiv(n_per_group,
                  treatment_per_day(daily_volume, treatment_split)),
           RatDiv(n_per_group,
                  control_per_day(daily_volume, treatment_split)))

\* line 103
relative_lift(p1, p2) == RatMul(RatDiv(RatSub(p2, p1), p1), Hundred)

\* lines 105-122: the dict returned
results(self, z_alpha, z_beta, n_per_group) ==
    [baseline_rate_pct |-> RatMul(self.p1, Hundred),
     target_rate_pct |-> RatMul(self.p2, Hundred),
     absolute_lift_pp |-> RatMul(self.mde, Hundred),
     relative_lift_pct |-> relative_lift(self.p1, self.p2),
     alpha |-> self.alpha,
     power |-> self.power,
     z_alpha |-> z_alpha,
     z_beta |-> z_beta,
     pooled_proportion |-> pooled_proportion(self.p1, self.p2),
     n_per_group |-> Ceil(n_per_group),
     total_n |-> Ceil(raw_total_n(n_per_group)),
     daily_volume |-> self.daily_volume,
     treatment_split |-> self.treatment_split,
     control_per_day |->
         control_per_day(self.daily_volume, self.treatment_split),
     treatment_per_day |->
         treatment_per_day(self.daily_volume, self.treatment_split),
     days_needed |->
         Ceil(raw_days_needed(n_per_group, self.daily_volume,
                              self.treatment_split))]

\* lines 80-122 with the two quantiles of lines 76-77: the exceptions the
\* call may end in (none: it returns ret)
sample_size_from(self, z_alpha, z_beta) ==
    IF RatIsZero(denominator(self.p1, self.p2))
    THEN [raises |->
              DivisionByZero(numerator(self.p1, self.p2, z_alpha, z_beta)),
          ret |-> None]
    ELSE [raises |-> {},
          ret |-> results(self, z_alpha, z_beta,
                          raw_n_per_group(self.p1, self.p2, z_alpha,
                                          z_beta))]

\* the body of calculate_sample_size
sample_size(self) ==
    sample_size_from(self, NormPpf(RatSub(One, RatDiv(self.alpha, Two))),
                     NormPpf(self.power))

\* a faulty variant: the call keeps the pooled proportion in self.p1
calculate_sample_size_storing(self) ==
    [out |-> sample_size(self),
     self |-> [self EXCEPT !.p1 = pooled_proportion(self.p1, self.p2)]]

\* The method as the caller sees it: its outcome and the instance as the call
\* leaves it (the method assigns to no attribute of self).
calculate_sample_size(self) == [out |-> sample_size(self), self |-> self]

(***************************************************************************)
(* The state: the calculators a caller holds (two names, so that two       *)
(* instances can be compared), the arguments each was constructed from,    *)
(* the exception the last operation on each ended in, and what each call   *)
(* of calculate_sample_size returned; the call of calculate_baseline_rate  *)
(* made (rate) and the running call of sensitivity_analysis (sweep).       *)
(***************************************************************************)
VARIABLES calc, args, raised, returned, rate, sweep

vars == <<calc, args, raised, returned, rate, sweep>>

Slots == {1, 2}

\* calls of calculate_sample_size on one instance
MaxCalls == 2

BaselineRates == {Permille(x) : x \in {-100, 0, 200, 500, 950, 1000, 1200}}

Mdes == {Permille(x) : x \in {-300, -50, 0, 50, 500, 800}}

Alphas == {Permille(x) : x \in {0, 50, 500, 1000}}

Powers == {Permille(x) : x \in {0, 200, 250, 800, 1000}}

DailyVolumes == {RatOfInt(x) : x \in {-5, 0, 300, 400}}

TreatmentSplits == {Permille(x) : x \in {0, 300, 500, 700, 1000}}

Init ==
    /\ calc = [i \in Slots |-> None]
    /\ args = [i \in Slots |-> None]
    /\ raised = [i \in Slots |-> NoError]
    /\ returned = [i \in Slots |-> <<>>]
    /\ rate = None
    /\ sweep = None

\* calc_i = ABTestCalculator(a...), the arguments a drawn from the set A: the
\* name is bound only when __init__ returns; a ValueError from
\* _validate_inputs leaves no instance behind
Construct(i, A) ==
    /\ args[i] = None
    /\ \E a \in A :
         \E self \in {ABTestCalculator_init(a.baseline_rate,
                                            a.minimum_detectable_effect,
                                            a.alpha, a.power, a.daily_volume,
                                            a.treatment_split)} :
           \E err \in {validate_inputs(self)} :
             /\ args' = [args EXCEPT ![i] = a]
             /\ raised' = [raised EXCEPT ![i] = err]
             /\ calc' = [calc EXCEPT
                           ![i] = IF err = NoError THEN self ELSE None]
    /\ UNCHANGED <<returned, rate, sweep>>

\* calc_i.calculate_sample_size()
Calculate(i) ==
    /\ calc[i] # None
    /\ Len(returned[i]) < MaxCalls
    /\ \E r \in {calculate_sample_size(calc[i])} :
         /\ calc' = [calc EXCEPT ![i] = r.self]
         /\ IF r.out.raises = {}
            THEN /\ returned' = [returned EXCEPT
                                   ![i] = Append(@, r.out.ret)]
                 /\ raised' = [raised EXCEPT ![i] = NoError]
            ELSE /\ \E e \in r.out.raises :
                      raised' = [raised EXCEPT ![i] = e]
                 /\ UNCHANGED returned
    /\ UNCHANGED <<args, rate, sweep>>

AllArgs ==
    [baseline_rate : BaselineRates, minimum_detectable_effect : Mdes,
     alpha : Alphas, power : Powers, daily_volume : DailyVolumes,
     treatment_split : TreatmentSplits]

Next ==
    \/ Construct(1, AllArgs)
    \/ Calculate(1)

Spec == Init /\ [][Next]_vars

(***************************************************************************)
(* Two instances that differ in one parameter: the second is constructed   *)
(* from the first one's arguments with a larger minimum_detectable_effect  *)
(* or a larger power, and each is computed once.                           *)
(***************************************************************************)
PairMdes == {Permille(x) : x \in {-100, -50, 50, 400, 500}}

PairPowers == {Permille(x) : x \in {100, 250, 800, 810, 900}}

PairArgs ==
    [baseline_rate : {Permille(200), Permille(500)},
     minimum_detectable_effect : PairMdes,
     alpha : {Permille(50), Permille(500)},
     power : PairPowers,
     daily_volume : {RatOfInt(400)},
     treatment_split : {Permille(300)}]

Variants(a) ==
    {[a EXCEPT !.minimum_detectable_effect = m] :
        m \in {m \in PairMdes : RatLess(a.minimum_detectable_effect, m)}}
    \cup {[a EXCEPT !.power = q] :
             q \in {q \in PairPowers : RatLess(a.power, q)}}

ConstructVariant ==
    /\ calc[1] # None
    /\ Construct(2, Variants(args[1]))

CalculateOnce(i) ==
    /\ returned[i] = <<>>
    /\ Calculate(i)

NextPair ==
    \/ Construct(1, PairArgs)
    \/ ConstructVariant
    \/ CalculateOnce(1)
    \/ CalculateOnce(2)

SpecPair == Init /\ [][NextPair]_vars

(***************************************************************************)
(* calculate_baseline_rate                                                 *)
(***************************************************************************)
\* a faulty variant: successful_accounts is not held against total_accounts
calculate_baseline_rate_unbounded(total_accounts, successful_accounts) ==
    IF total_accounts <= 0
    THEN [raised |-> "total_accounts must be positive", ret |-> None]
    ELSE IF successful_accounts < 0
    THEN [raised |->
              "successful_accounts must be between 0 and total_accounts",
          ret |-> None]
    ELSE [raised |-> NoError,
          ret |-> RatDiv(RatOfInt(successful_accounts),
                         RatOfInt(total_accounts))]

\* the message of the ValueError raised, or the rate returned
calculate_baseline_rate(total_accounts, successful_accounts) ==
    IF total_accounts <= 0
    THEN [raised |-> "total_accounts must be positive", ret |-> None]
    ELSE IF successful_accounts < 0 \/ successful_accounts > total_accounts
    THEN [raised |->
              "successful_accounts must be between 0 and total_accounts",
          ret |-> None]
    ELSE [raised |-> NoError,
          ret |-> RatDiv(RatOfInt(successful_accounts),
                         RatOfInt(total_accounts))]

\* the small counts tried, beside the two pairs of the documentation
MaxAccounts == 8

TotalAccounts == (-2..MaxAccounts) \cup {100, 1500}

SuccessfulAccounts == (-2..(MaxAccounts + 1)) \cup {150, 300}

CallBaselineRate ==
    /\ rate = None
    /\ \E t \in TotalAccounts, n \in SuccessfulAccounts :
         \E r \in {calculate_baseline_rate(t, n)} :
           rate' = [total_accounts |-> t, successful_accounts |-> n,
                    raised |-> r.raised, ret |-> r.ret]
    /\ UNCHANGED <<calc, args, raised, returned, sweep>>

NextBaseline == CallBaselineRate

SpecBaseline == Init /\ [][NextBaseline]_vars

(***************************************************************************)
(* sensitivity_analysis: one step for each turn of its loop.  rows are the *)
(* table rows printed so far.                                              *)
(***************************************************************************)
mde_values ==
    <<Permille(20), Permille(30), Permille(40), Permille(50), Permille(60),
      Permille(80), Permille(100)>>

\* lines 232-243 once the instance is built: the row printed, or the
\* exceptions the turn may end in
sweep_row(self, err) ==
    IF err # NoError THEN [kind |-> "raise", errors |-> {err}]
    ELSE IF sample_size(self).raises # {}
    THEN [kind |-> "raise", errors |-> sample_size(self).raises]
    ELSE [kind |-> "row", ret |-> sample_size(self).ret]

sweep_build(self) == sweep_row(self, validate_inputs(self))

\* lines 229-243, a faulty variant: a target rate of exactly 1.0 is skipped too
sweep_turn_skipping_one(baseline_rate, daily_volume, alpha, power, mde) ==
    IF RatLeq(One, RatAdd(baseline_rate, mde)) THEN [kind |-> "continue"]
    ELSE sweep_build(ABTestCalculator_init(baseline_rate, mde, alpha, power,
                                           daily_volume, Permille(500)))

\* lines 229-243: one turn of the loop
sweep_turn(baseline_rate, daily_volume, alpha, power, mde) ==
    IF RatLess(One, RatAdd(baseline_rate, mde)) THEN [kind |-> "continue"]
    ELSE sweep_build(ABTestCalculator_init(baseline_rate, mde, alpha, power,
                                           daily_volume, Permille(500)))

SweepArgs ==
    [baseline_rate :
         {Permille(x) : x \in {0, 200, 900, 950, 980, 1000, 1500}},
     daily_volume : {RatOfInt(0), RatOfInt(400)},
     alpha : {Permille(50), Permille(1000)},
     power : {Permille(0), Permille(800)}]

\* sensitivity_analysis(a...) is entered
SweepCall ==
    /\ sweep = None
    /\ \E a \in SweepArgs :
         sweep' = [a |-> a, idx |-> 1, rows |-> <<>>, status |-> "running",
                   raised |-> NoError]
    /\ UNCHANGED <<calc, args, raised, returned, rate>>

\* for mde in mde_values: ...
SweepTurn ==
    /\ sweep # None
    /\ sweep.status = "running"
    /\ sweep.idx <= Len(mde_values)
    /\ \E o \in {sweep_turn(sweep.a.baseline_rate, sweep.a.daily_volume,
                            sweep.a.alpha, sweep.a.power,
                            mde_values[sweep.idx])} :
         IF o.kind = "continue"
         THEN sweep' = [sweep EXCEPT !.idx = @ + 1]
         ELSE IF o.kind = "row"
         THEN sweep' = [sweep EXCEPT
                          !.idx = @ + 1,
                          !.rows = Append(@, [mde |-> mde_values[sweep.idx],
                                              ret |-> o.ret])]
         ELSE \E e \in o.errors :
                sweep' = [sweep EXCEPT !.status = "raised", !.raised = e]
    /\ UNCHANGED <<calc, args, raised, returned, rate>>

\* the loop is over and the function returns
SweepReturn ==
    /\ sweep # None
    /\ sweep.status = "running"
    /\ sweep.idx > Len(mde_values)
    /\ sweep' = [sweep EXCEPT !.status = "returned"]
    /\ UNCHANGED <<calc, args, raised, returned, rate>>

NextSweep == SweepCall \/ SweepTurn \/ SweepReturn

SpecSweep == Init /\ [][NextSweep]_vars

(***************************************************************************)
(* Properties of the constructor and of calculate_sample_size.             *)
(***************************************************************************)
InOpenUnit(x) == RatLess(Zero, x) /\ RatLess(x, One)

\* the six conditions under which construction is to fail
Rejected(a) ==
    LET target == RatAdd(a.baseline_rate, a.minimum_detectable_effect)
    IN  \/ ~InOpenUnit(a.baseline_rate)
        \/ ~(RatLess(Zero, target) /\ RatLeq(target, One))
        \/ ~InOpenUnit(a.alpha)
        \/ ~InOpenUnit(a.power)
        \/ RatLeq(a.daily_volume, Zero)
        \/ ~InOpenUnit(a.treatment_split)

Constructed == {i \in Slots : calc[i] # None}

\* the unrounded per-group requirement of an instance with p2 # p1
RawOf(self) ==
    raw_n_per_group(self.p1, self.p2,
                    NormPpf(RatSub(One, RatDiv(self.alpha, Two))),
                    NormPpf(self.power))

\* C1: construction ends in the validation ValueError exactly when one of
\* the six conditions holds of its arguments, and yields an instance for
\* every other input.
C1_ValidationExact ==
    \A i \in Slots :
        args[i] # None =>
            /\ Rejected(args[i]) <=> calc[i] = None
            /\ calc[i] = None <=> raised[i] \in ValidationErrors

\* C1 witness: a target rate of exactly 1.0 was accepted
C1_Witness == calc[1] # None /\ RatEq(calc[1].p2, One)

\* C2: no call of calculate_sample_size on a constructed instance ends in an
\* exception.
C2_ComputeNeverFails ==
    \A i \in Constructed : raised[i] \notin ComputeErrors

IsExample(a) ==
    /\ RatEq(a.baseline_rate, Permille(200))
    /\ RatEq(a.minimum_detectable_effect, Permille(50))
    /\ RatEq(a.alpha, Permille(50))
    /\ RatEq(a.power, Permille(800))
    /\ RatEq(a.daily_volume, RatOfInt(400))
    /\ RatEq(a.treatment_split, Permille(500))

Near(x, y) == Abs(x - y) <= 1

ExampleReturns(i) ==
    IF i \in Constructed /\ IsExample(args[i])
    THEN {returned[i][j] : j \in 1..Len(returned[i])} ELSE {}

\* C3 as stated: the example returns 25.0, 25.0 and sizes within 1 of 587,
\* 1174 and 6.
C3_ExampleAsStated ==
    \A i \in Slots : \A r \in ExampleReturns(i) :
        /\ RatEq(r.target_rate_pct, RatOfInt(25))
        /\ RatEq(r.relative_lift_pct, RatOfInt(25))
        /\ Near(r.n_per_group, 587)
        /\ Near(r.total_n, 1174)
        /\ Near(r.days_needed, 6)

\* C3 amended: the example returns 25.0, 25.0 and sizes within 1 of 1095,
\* 2190 and 6, with the quantiles 1.95996 and 0.84162.
C3_Example ==
    \A i \in Slots : \A r \in ExampleReturns(i) :
        /\ RatEq(r.z_alpha, Frac(195996, 100000))
        /\ RatEq(r.z_beta, Frac(84162, 100000))
        /\ RatEq(r.target_rate_pct, RatOfInt(25))
        /\ RatEq(r.relative_lift_pct, RatOfInt(25))
        /\ Near(r.n_per_group, 1095)
        /\ Near(r.total_n, 2190)
        /\ Near(r.days_needed, 6)

\* C3 witness: the example was constructed and computed
C3_Witness == ExampleReturns(1) # {}

\* C4: total_n is the least integer not below twice the unrounded per-group
\* requirement, and is 2 * n_per_group or 2 * n_per_group - 1.
C4_TotalFromRaw ==
    \A i \in Constructed : \A j \in 1..Len(returned[i]) :
        LET r == returned[i][j]
            twice == RatAdd(RawOf(calc[i]), RawOf(calc[i]))
        IN  /\ RatLeq(twice, RatOfInt(r.total_n))
            /\ RatLess(RatOfInt(r.total_n - 1), twice)
            /\ r.total_n \in {2 * r.n_per_group, 2 * r.n_per_group - 1}

\* C4 witness: a result whose total_n is one less than twice n_per_group
C4_Witness ==
    /\ returned[1] # <<>>
    /\ returned[1][1].total_n = 2 * returned[1][1].n_per_group - 1

\* C7: every call on an instance returns the same record, and the instance
\* keeps the parameters it was constructed with.
C7_Pure ==
    \A i \in Constructed :
        /\ calc[i].p1 = args[i].baseline_rate
        /\ calc[i].mde = args[i].minimum_detectable_effect
        /\ calc[i].p2 = RatAdd(args[i].baseline_rate,
                               args[i].minimum_detectable_effect)
        /\ calc[i].alpha = args[i].alpha
        /\ calc[i].power = args[i].power
        /\ calc[i].daily_volume = args[i].daily_volume
        /\ calc[i].treatment_split = args[i].treatment_split
        /\ \A j, k \in 1..Len(returned[i]) : returned[i][j] = returned[i][k]

\* C7 witness: an instance was called twice
C7_Witness == Len(returned[1]) >= 2

\* C10: days_needed is the least integer d for which both arms have
\* gathered the unrounded per-group requirement after d days, which is the
\* ceiling of that requirement over the smaller daily allocation.
C10_DaysBySmallerArm ==
    \A i \in Constructed : \A j \in 1..Len(returned[i]) :
        LET r == returned[i][j]
            raw == RawOf(calc[i])
            smaller == IF RatLess(r.control_per_day, r.treatment_per_day)
                       THEN r.control_per_day ELSE r.treatment_per_day
            after(d, perday) == RatMul(RatOfInt(d), perday)
        IN  /\ RatEq(r.control_per_day,
                     RatMul(calc[i].daily_volume,
                            RatSub(One, calc[i].treatment_split)))
            /\ RatEq(r.treatment_per_day,
                     RatMul(calc[i].daily_volume, calc[i].treatment_split))
            /\ r.days_needed = Ceil(RatDiv(raw, smaller))
            /\ RatLeq(raw, after(r.days_needed, r.control_per_day))
            /\ RatLeq(raw, after(r.days_needed, r.treatment_per_day))
            /\ r.days_needed >= 0
            /\ r.days_needed > 0 =>
                   \/ RatLess(after(r.days_needed - 1, r.control_per_day), raw)
                   \/ RatLess(after(r.days_needed - 1, r.treatment_per_day),
                              raw)

\* C10 witness: a result of an uneven split with the control arm the larger
C10_Witness ==
    /\ returned[1] # <<>>
    /\ RatLess(returned[1][1].treatment_per_day,
               returned[1][1].control_per_day)
    /\ returned[1][1].days_needed > 1

(***************************************************************************)
(* Properties of two instances that differ in one parameter.               *)
(***************************************************************************)
Computed == {i \in Constructed : returned[i] # <<>>}

DifferInMde(i, j) ==
    /\ args[j] = [args[i] EXCEPT
                    !.minimum_detectable_effect =
                        args[j].minimum_detectable_effect]
    /\ RatLess(args[i].minimum_detectable_effect,
               args[j].minimum_detectable_effect)

DifferInPower(i, j) ==
    /\ args[j] = [args[i] EXCEPT !.power = args[j].power]
    /\ RatLess(args[i].power, args[j].power)

\* C5 as stated: of two instances that differ in the MDE alone, the one
\* with the larger MDE has the strictly smaller n_per_group and days_needed.
C5_MdeStrictlyDecreases ==
    \A i, j \in Computed :
        DifferInMde(i, j) =>
            /\ returned[j][1].n_per_group < returned[i][1].n_per_group
            /\ returned[j][1].days_needed < returned[i][1].days_needed

\* C5 amended: of two instances that differ in the MDE alone, both MDEs
\* positive, the one with the larger MDE has no larger n_per_group and no
\* larger days_needed.
C5_PositiveMdeNeverIncreases ==
    \A i, j \in Computed :
        DifferInMde(i, j) /\ RatLess(Zero, args[i].minimum_detectable_effect)
            => /\ returned[j][1].n_per_group <= returned[i][1].n_per_group
               /\ returned[j][1].days_needed <= returned[i][1].days_needed

\* C5 witness: two computed instances with positive MDEs, the larger MDE
\* with the strictly smaller size and duration
C5_Witness ==
    /\ Computed = Slots
    /\ DifferInMde(1, 2)
    /\ RatLess(Zero, args[1].minimum_detectable_effect)
    /\ returned[2][1].n_per_group < returned[1][1].n_per_group
    /\ returned[2][1].days_needed < returned[1][1].days_needed

\* C6 as stated: of two instances that differ in the power alone, the one
\* with the larger power has the strictly larger n_per_group.
C6_PowerStrictlyIncreases ==
    \A i, j \in Computed :
        DifferInPower(i, j) =>
            returned[i][1].n_per_group < returned[j][1].n_per_group

\* C6 amended: of two instances that differ in the power alone, the smaller
\* power at least alpha / 2, the one with the larger power has no smaller
\* n_per_group.
C6_PowerNeverDecreases ==
    \A i, j \in Computed :
        /\ DifferInPower(i, j)
        /\ RatLeq(RatDiv(args[i].alpha, Two), args[i].power)
        => returned[i][1].n_per_group <= returned[j][1].n_per_group

\* C6 witness: two computed instances, the smaller power at least alpha / 2,
\* the larger power with the strictly larger size
C6_Witness ==
    /\ Computed = Slots
    /\ DifferInPower(1, 2)
    /\ RatLeq(RatDiv(args[1].alpha, Two), args[1].power)
    /\ returned[1][1].n_per_group < returned[2][1].n_per_group

(***************************************************************************)
(* Properties of calculate_baseline_rate and sensitivity_analysis.         *)
(***************************************************************************)
BaselineErrors ==
    { "total_accounts must be positive",
      "successful_accounts must be between 0 and total_accounts" }

\* C8: the call fails with a ValueError exactly when total_accounts <= 0 or
\* successful_accounts is outside [0, total_accounts]; otherwise it returns
\* successful_accounts / total_accounts, a rate in [0, 1]; (1500, 300)
\* returns 0.2 and (100, 150) fails.
C8_BaselineRate ==
    rate # None =>
        /\ (rate.raised \in BaselineErrors) <=>
               \/ rate.total_accounts <= 0
               \/ rate.successful_accounts < 0
               \/ rate.successful_accounts > rate.total_accounts
        /\ rate.raised \notin BaselineErrors =>
               /\ rate.raised = NoError
               /\ RatEq(RatMul(rate.ret, RatOfInt(rate.total_accounts)),
                        RatOfInt(rate.successful_accounts))
               /\ RatLeq(Zero, rate.ret)
               /\ RatLeq(rate.ret, One)
        /\ rate.raised \in BaselineErrors => rate.ret = None
        /\ rate.total_accounts = 1500 /\ rate.successful_accounts = 300 =>
               rate.raised = NoError /\ RatEq(rate.ret, Frac(2, 10))
        /\ rate.total_accounts = 100 /\ rate.successful_accounts = 150 =>
               rate.raised \in BaselineErrors

\* C8 witness: the documented call (1500, 300) returned
C8_Witness ==
    /\ rate # None
    /\ rate.total_accounts = 1500
    /\ rate.successful_accounts = 300
    /\ rate.raised = NoError

\* the MDEs of the turns taken so far that the sweep is to process
RECURSIVE Kept(_, _)
Kept(b, n) ==
    IF n = 0 THEN <<>>
    ELSE IF RatLeq(RatAdd(b, mde_values[n]), One)
    THEN Append(Kept(b, n - 1), mde_values[n])
    ELSE Kept(b, n - 1)

SweepValid(a) ==
    /\ InOpenUnit(a.baseline_rate)
    /\ InOpenUnit(a.alpha)
    /\ InOpenUnit(a.power)
    /\ RatLess(Zero, a.daily_volume)

\* C9: the rows printed are, in the list's order, those of the MDEs visited
\* with baseline_rate + mde <= 1.0; with valid arguments the sweep raises
\* nothing; with baseline_rate = 0.20 it returns after all 7 rows.
C9_Sweep ==
    sweep # None =>
        /\ sweep.status # "raised" =>
               [k \in 1..Len(sweep.rows) |-> sweep.rows[k].mde]
                   = Kept(sweep.a.baseline_rate, sweep.idx - 1)
        /\ SweepValid(sweep.a) => sweep.status # "raised"
        /\ /\ SweepValid(sweep.a)
           /\ RatEq(sweep.a.baseline_rate, Permille(200))
           /\ sweep.status = "returned"
           => /\ Len(sweep.rows) = 7
              /\ \A k \in 1..7 : sweep.rows[k].mde = mde_values[k]

\* C9 witness: a valid sweep that skipped an entry and returned
C9_Witness ==
    /\ sweep # None
    /\ SweepValid(sweep.a)
    /\ sweep.status = "returned"
    /\ Len(sweep.rows) \in 1..6

=============================================================================
